---- MODULE Spec2Model ----
(***************************************************************************)
(* Model of the knapsack instance generators                               *)
(*   src/instance_generator.py   gen_instance (clamps ne, guarantees       *)
(*                               coverage) and its interactive driver      *)
(*   src/gerador_de_instâncias.py gen_instance (shuffle-and-take, raises   *)
(*                               when ne exceeds the number of pairs)      *)
(* Text is a sequence of one-character strings; a call is a small state    *)
(* machine over the statements of the function.                            *)
(***************************************************************************)
EXTENDS Integers, Sequences, FiniteSets, TLC

VARIABLES variant, m, n, b, benefit_max, dep_max, seed, ne_arg,
          ne, benefits, deps, pairs_set, i, all_pairs, pairs,
          pc, ret, raised, stdout, iters, rng,
          run, first, entered,
          line, mpc, file

args   == <<variant, m, n, b, benefit_max, dep_max, seed, ne_arg>>
locals == <<ne, benefits, deps, pairs_set, i, all_pairs, pairs>>
call   == <<pc, ret, raised, iters>>
twice  == <<run, first>>
driver == <<line, mpc, file>>
vars   == <<args, locals, call, stdout, rng, entered, twice, driver>>

----------------------------------------------------------------------------
(* Bounds of the model *)
MaxM == 2
MaxN == 2
MaxCells == 4
MaxB == 1
MaxIters == 2
RngMod == 16
MaxSeed == 1
MaxTokens == 5

(* Program constants *)
BenefitMin == 10
DepMin == 5
DefaultBenefitMax == 600
DefaultDepMax == 400
DriverSeed == 42

NoSeed == <<>>
Clamping == "instance_generator"
Raising == "gerador_de_instancias"

Min(x, y) == IF x < y THEN x ELSE y
Max(x, y) == IF x > y THEN x ELSE y

----------------------------------------------------------------------------
(* Text: str(int), " ".join, "\n".join, and their inverses *)
SP == " "
NL == "\n"
DigitChar == <<"0", "1", "2", "3", "4", "5", "6", "7", "8", "9">>

RECURSIVE Digits(_)
Digits(k) ==
  IF k < 10 THEN <<DigitChar[k + 1]>>
  ELSE Digits(k \div 10) \o <<DigitChar[(k % 10) + 1]>>

Str(k) == IF k < 0 THEN <<"-">> \o Digits(0 - k) ELSE Digits(k)

RECURSIVE Join(_, _)
Join(parts, sep) ==
  IF Len(parts) = 0 THEN <<>>
  ELSE IF Len(parts) = 1 THEN parts[1]
  ELSE parts[1] \o <<sep>> \o Join(Tail(parts), sep)

StrEach(ints) == [k \in 1..Len(ints) |-> Str(ints[k])]

HeaderLine(pm, pn, pne, pb) == Join(<<Str(pm), Str(pn), Str(pne), Str(pb)>>, SP)

PairLine(p) == Str(p[1]) \o <<SP>> \o Str(p[2])

InstanceText(pm, pn, pne, pb, bens, ws, prs) ==
  Join(<<HeaderLine(pm, pn, pne, pb), Join(StrEach(bens), SP), Join(StrEach(ws), SP)>>
       \o [k \in 1..Len(prs) |-> PairLine(prs[k])], NL)

----------------------------------------------------------------------------
(* Inverses of the text format: text.split("\n"), line.split(), int(token) *)
RECURSIVE SplitOn(_, _)
SplitOn(text, sep) ==
  IF \A k \in 1..Len(text) : text[k] # sep THEN <<text>>
  ELSE LET at == CHOOSE k \in 1..Len(text) :
                   text[k] = sep /\ \A h \in 1..(k - 1) : text[h] # sep
       IN <<SubSeq(text, 1, at - 1)>> \o SplitOn(SubSeq(text, at + 1, Len(text)), sep)

NonEmpty(parts) == SelectSeq(parts, LAMBDA t : Len(t) > 0)

PySplit(text) == NonEmpty(SplitOn(text, SP))

IsDigit(c) == \E k \in 1..10 : DigitChar[k] = c
DigitVal(c) == (CHOOSE k \in 1..10 : DigitChar[k] = c) - 1

RECURSIVE DigitsVal(_)
DigitsVal(ds) ==
  IF Len(ds) = 0 THEN 0
  ELSE 10 * DigitsVal(SubSeq(ds, 1, Len(ds) - 1)) + DigitVal(ds[Len(ds)])

Unsigned(tok) == IF Len(tok) > 0 /\ tok[1] \in {"-", "+"} THEN Tail(tok) ELSE tok

IsInt(tok) == Len(Unsigned(tok)) > 0 /\ \A k \in 1..Len(Unsigned(tok)) : IsDigit(Unsigned(tok)[k])

PyInt(tok) ==
  IF Len(tok) > 0 /\ tok[1] = "-" THEN 0 - DigitsVal(Unsigned(tok)) ELSE DigitsVal(Unsigned(tok))

----------------------------------------------------------------------------
(* The random module *)
RandintRaises(lo, hi) == lo > hi

RandintPastHi(lo, hi) == {v \in lo..(hi + 1) : v - lo < MaxCells \/ v >= hi}

Randint(lo, hi) == {v \in lo..hi : v - lo < MaxCells \/ v = hi}

RandintLists(k, lo, hi) == [1..Max(k, 0) -> Randint(lo, hi)]

Orders(S) == {f \in [1..Cardinality(S) -> S] : \A x, y \in 1..Cardinality(S) : f[x] = f[y] => x = y}

SeedState(s) == (7 * s + 1) % RngMod

ReseedIgnored(sd, r) == r

Reseed(sd, r) == IF sd # NoSeed THEN SeedState(sd[1]) ELSE r

Advance(r) == (5 * r + 3) % RngMod

DetRandint(r, lo, hi) == lo + (Advance(r) % (hi - lo + 1))

RECURSIVE AdvanceBy(_, _)
AdvanceBy(r, k) == IF k <= 0 THEN r ELSE AdvanceBy(Advance(r), k - 1)

DetRandintList(r, k, lo, hi) == [x \in 1..Max(k, 0) |-> DetRandint(AdvanceBy(r, x - 1), lo, hi)]

Swap(s, x, y) == [s EXCEPT ![x] = s[y], ![y] = s[x]]

RECURSIVE DetShuffleFrom(_, _, _)
DetShuffleFrom(s, r, at) ==
  IF at < 2 THEN s
  ELSE DetShuffleFrom(Swap(s, at, 1 + DetRandint(r, 0, at - 1)), Advance(r), at - 1)

DetShuffle(s, r) == DetShuffleFrom(s, r, Len(s))

----------------------------------------------------------------------------
(* Pairs *)
Cells(pm, pn) == IF pm > 0 /\ pn > 0 THEN pm * pn ELSE 0

AllPairs(pm, pn) == {<<x, y>> : x \in 0..(pm - 1), y \in 0..(pn - 1)}

RowMajor(pm, pn) == [k \in 1..Cells(pm, pn) |-> <<(k - 1) \div pn, (k - 1) % pn>>]

PairLess(p, q) == p[1] < q[1] \/ (p[1] = q[1] /\ p[2] < q[2])

ListOfSet(S) == CHOOSE f \in Orders(S) : \A x, y \in 1..Cardinality(S) : x < y => PairLess(f[x], f[y])

SliceOneMore(s, k) ==
  IF k >= 0 THEN SubSeq(s, 1, Min(k + 1, Len(s))) ELSE SubSeq(s, 1, Max(Len(s) + k, 0))

Slice(s, k) ==
  IF k >= 0 THEN SubSeq(s, 1, Min(k, Len(s))) ELSE SubSeq(s, 1, Max(Len(s) + k, 0))

ClampNeUpperOnly(pm, pn, pne) == IF pne > pm * pn THEN pm * pn ELSE pne

ClampNe(pm, pn, pne) ==
  IF pne < pm THEN pm ELSE IF pne > pm * pn THEN pm * pn ELSE pne

Notice(pm, pn, pne) ==
  IF pne < pm THEN <<<<"too small", pne, pm>>>>
  ELSE IF pne > pm * pn THEN <<<<"too large", pne, pm * pn>>>>
  ELSE <<>>

LoopCondInclusive(size, pne) == size <= pne

LoopCond(size, pne) == size < pne

CoverPairSwapped(pkg, dep) == <<dep, pkg>>

CoverPair(pkg, dep) == <<pkg, dep>>

TooManyOrEqual(pne, available) == pne >= available

TooMany(pne, available) == pne > available

----------------------------------------------------------------------------
(* A call of gen_instance: the state on entry *)
Enter(v, pm, pn, pne, pb, bmax, dmax, sd) ==
  /\ variant = v /\ m = pm /\ n = pn /\ ne_arg = pne /\ b = pb
  /\ benefit_max = bmax /\ dep_max = dmax /\ seed = sd
  /\ ne = pne /\ benefits = <<>> /\ deps = <<>> /\ pairs_set = {} /\ i = 0
  /\ all_pairs = <<>> /\ pairs = <<>>
  /\ pc = "seed" /\ ret = <<>> /\ raised = "" /\ iters = 0

Raise(err) ==
  /\ raised' = err /\ pc' = "raised"
  /\ UNCHANGED <<entered, args, locals, ret, iters, stdout, rng, twice, driver>>

(* if seed is not None: random.seed(seed) *)
SeedStep ==
  /\ pc = "seed"
  /\ rng' = Reseed(seed, rng)
  /\ entered' = Append(entered, rng)
  /\ pc' = IF variant = Clamping THEN "clamp" ELSE "benefits"
  /\ UNCHANGED <<args, locals, ret, raised, iters, stdout, twice, driver>>

(* the validation of ne against [m, m*n], with its printed notice *)
ClampStep ==
  /\ pc = "clamp"
  /\ ne' = ClampNe(m, n, ne)
  /\ stdout' = stdout \o Notice(m, n, ne)
  /\ pc' = "benefits"
  /\ UNCHANGED <<entered, args, benefits, deps, pairs_set, i, all_pairs, pairs, ret, raised,
                 iters, rng, twice, driver>>

(* benefits = [random.randint(10, benefit_max) for _ in range(m)] *)
BenefitsStep(vals, r) ==
  /\ pc = "benefits"
  /\ ~(m > 0 /\ RandintRaises(BenefitMin, benefit_max))
  /\ benefits' = vals /\ rng' = r
  /\ pc' = "deps"
  /\ UNCHANGED <<entered, args, ne, deps, pairs_set, i, all_pairs, pairs, ret, raised, iters,
                 stdout, twice, driver>>

BenefitsRaise ==
  /\ pc = "benefits"
  /\ m > 0 /\ RandintRaises(BenefitMin, benefit_max)
  /\ Raise("ValueError")

(* deps = [random.randint(5, dep_max) for _ in range(n)] *)
DepsStep(vals, r) ==
  /\ pc = "deps"
  /\ ~(n > 0 /\ RandintRaises(DepMin, dep_max))
  /\ deps' = vals /\ rng' = r
  /\ pc' = IF variant = Clamping THEN "cover" ELSE "all_pairs"
  /\ UNCHANGED <<entered, args, ne, benefits, pairs_set, i, all_pairs, pairs, ret, raised, iters,
                 stdout, twice, driver>>

DepsRaise ==
  /\ pc = "deps"
  /\ n > 0 /\ RandintRaises(DepMin, dep_max)
  /\ Raise("ValueError")

(* Step 1: for i in range(m): j = random.randint(0, n - 1); pairs_set.add((i, j)) *)
CoverStep(j, r) ==
  /\ pc = "cover"
  /\ i < m
  /\ ~RandintRaises(0, n - 1)
  /\ pairs_set' = pairs_set \cup {CoverPair(i, j)}
  /\ i' = i + 1 /\ rng' = r
  /\ UNCHANGED <<entered, args, ne, benefits, deps, all_pairs, pairs, call, stdout, twice, driver>>

CoverRaise ==
  /\ pc = "cover"
  /\ i < m
  /\ RandintRaises(0, n - 1)
  /\ Raise("ValueError")

CoverExit ==
  /\ pc = "cover"
  /\ ~(i < m)
  /\ pc' = "loop"
  /\ UNCHANGED <<entered, args, locals, ret, raised, iters, stdout, rng, twice, driver>>

(* Step 2: while len(pairs_set) < ne: add a random pair (p, d) *)
LoopStep(p, d, r) ==
  /\ pc = "loop"
  /\ LoopCond(Cardinality(pairs_set), ne)
  /\ ~RandintRaises(0, m - 1) /\ ~RandintRaises(0, n - 1)
  /\ pairs_set' = pairs_set \cup {<<p, d>>}
  /\ iters' = Min(iters + 1, MaxIters)
  /\ rng' = r
  /\ UNCHANGED <<entered, args, ne, benefits, deps, i, all_pairs, pairs, pc, ret, raised,
                 stdout, twice, driver>>

LoopRaise ==
  /\ pc = "loop"
  /\ LoopCond(Cardinality(pairs_set), ne)
  /\ (RandintRaises(0, m - 1) \/ RandintRaises(0, n - 1))
  /\ Raise("ValueError")

LoopExit ==
  /\ pc = "loop"
  /\ ~LoopCond(Cardinality(pairs_set), ne)
  /\ pc' = "shuffle"
  /\ UNCHANGED <<entered, args, locals, ret, raised, iters, stdout, rng, twice, driver>>

(* pairs = list(pairs_set); random.shuffle(pairs) *)
ShuffleStep(order, r) ==
  /\ pc = "shuffle"
  /\ pairs' = order /\ rng' = r
  /\ pc' = "format"
  /\ UNCHANGED <<entered, args, ne, benefits, deps, pairs_set, i, all_pairs, ret, raised, iters,
                 stdout, twice, driver>>

(* all_pairs = [(i, j) for i in range(m) for j in range(n)]; random.shuffle(all_pairs) *)
AllPairsStep(order, r) ==
  /\ pc = "all_pairs"
  /\ all_pairs' = order /\ rng' = r
  /\ pc' = "check"
  /\ UNCHANGED <<entered, args, ne, benefits, deps, pairs_set, i, pairs, ret, raised, iters,
                 stdout, twice, driver>>

(* if ne > len(all_pairs): raise ValueError("ne cannot exceed m*n") *)
CheckRaise ==
  /\ pc = "check"
  /\ TooMany(ne, Len(all_pairs))
  /\ Raise("ValueError")

(* pairs = all_pairs[:ne] *)
TakeStep ==
  /\ pc = "check"
  /\ ~TooMany(ne, Len(all_pairs))
  /\ pairs' = Slice(all_pairs, ne)
  /\ pc' = "format"
  /\ UNCHANGED <<entered, args, ne, benefits, deps, pairs_set, i, all_pairs, ret, raised, iters,
                 stdout, rng, twice, driver>>

(* out = [header, benefits, deps, pair lines]; return "\n".join(out) *)
FormatStep ==
  /\ pc = "format"
  /\ ret' = InstanceText(m, n, ne, b, benefits, deps, pairs)
  /\ pc' = "done"
  /\ UNCHANGED <<entered, args, locals, raised, iters, stdout, rng, twice, driver>>

----------------------------------------------------------------------------
(* The statements of a call, the random module's outcomes left open *)
AnyBenefits == \E vals \in RandintLists(m, BenefitMin, benefit_max) : BenefitsStep(vals, rng)
AnyDeps == \E vals \in RandintLists(n, DepMin, dep_max) : DepsStep(vals, rng)
AnyCover == \E j \in Randint(0, n - 1) : CoverStep(j, rng)
AnyLoop == \E p \in Randint(0, m - 1), d \in Randint(0, n - 1) : LoopStep(p, d, rng)
AnyShuffle == \E order \in Orders(pairs_set) : ShuffleStep(order, rng)
AnyAllPairs == \E order \in Orders(AllPairs(m, n)) : AllPairsStep(order, rng)

ClampingSteps ==
  \/ SeedStep \/ ClampStep
  \/ AnyBenefits \/ AnyDeps
  \/ AnyCover \/ CoverRaise \/ CoverExit
  \/ AnyLoop \/ LoopRaise \/ LoopExit
  \/ AnyShuffle
  \/ FormatStep

EmptyRangeRaises == BenefitsRaise \/ DepsRaise

ClampingCall == ClampingSteps \/ EmptyRangeRaises

RaisingCall ==
  \/ AnyAllPairs \/ CheckRaise \/ TakeStep

Variants == {Clamping, Raising}
Sizes == {s \in ((0 - 1)..MaxM) \X ((0 - 1)..MaxN) : Cells(s[1], s[2]) <= MaxCells}
Counts == (0 - 1)..(MaxCells + 1)
Capacities == 0..MaxB
BenefitMaxes == {BenefitMin - 1, BenefitMin + 1}
DepMaxes == {DepMin - 1, DepMin + 1}
Seeds == {NoSeed} \cup {<<s>> : s \in 0..MaxSeed}

Idle ==
  /\ stdout = <<>> /\ rng = 0 /\ entered = <<>>
  /\ run = 0 /\ first = <<>>
  /\ line = <<>> /\ mpc = "" /\ file = <<>>

Init ==
  /\ \E v \in Variants, s \in Sizes, pne \in Counts, pb \in Capacities,
        bmax \in BenefitMaxes, dmax \in DepMaxes, sd \in {NoSeed, <<MaxSeed>>} :
       Enter(v, s[1], s[2], pne, pb, bmax, dmax, sd)
  /\ Idle

Next == ClampingCall \/ RaisingCall

Spec == Init /\ [][Next]_vars

----------------------------------------------------------------------------
(* Two calls with the same arguments, the random module a deterministic generator:
   seed(s) sets its state, every draw is a function of the state and advances it.
   Draws made by other code before a call move the state. *)
Begin(v, pm, pn, pne, pb, bmax, dmax, sd) ==
  /\ variant' = v /\ m' = pm /\ n' = pn /\ ne_arg' = pne /\ b' = pb
  /\ benefit_max' = bmax /\ dep_max' = dmax /\ seed' = sd
  /\ ne' = pne /\ benefits' = <<>> /\ deps' = <<>> /\ pairs_set' = {} /\ i' = 0
  /\ all_pairs' = <<>> /\ pairs' = <<>>
  /\ pc' = "seed" /\ ret' = <<>> /\ raised' = "" /\ iters' = 0

Outcome == <<pc, ret, raised>>

DetBenefits ==
  BenefitsStep(DetRandintList(rng, m, BenefitMin, benefit_max), AdvanceBy(rng, m))
DetDeps == DepsStep(DetRandintList(rng, n, DepMin, dep_max), AdvanceBy(rng, n))
DetCover == CoverStep(DetRandint(rng, 0, n - 1), Advance(rng))
DetLoop ==
  LoopStep(DetRandint(rng, 0, m - 1), DetRandint(Advance(rng), 0, n - 1), AdvanceBy(rng, 2))
DetShuffleStep ==
  ShuffleStep(DetShuffle(ListOfSet(pairs_set), rng), AdvanceBy(rng, Cardinality(pairs_set) - 1))
DetAllPairs == AllPairsStep(DetShuffle(RowMajor(m, n), rng), AdvanceBy(rng, Cells(m, n) - 1))

AmbientDraw ==
  /\ pc = "seed"
  /\ rng' = Advance(rng)
  /\ UNCHANGED <<entered, args, locals, call, stdout, twice, driver>>

Again ==
  /\ run = 1
  /\ pc \in {"done", "raised"}
  /\ first' = Outcome /\ run' = 2
  /\ Begin(variant, m, n, ne_arg, b, benefit_max, dep_max, seed)
  /\ UNCHANGED <<entered, stdout, rng, driver>>

InitDet ==
  /\ \E v \in Variants, s \in Sizes, pne \in Counts, sd \in Seeds :
       Enter(v, s[1], s[2], pne, MaxB, BenefitMin + 1, DepMin + 1, sd)
  /\ stdout = <<>> /\ rng = 0 /\ entered = <<>>
  /\ run = 1 /\ first = <<>>
  /\ line = <<>> /\ mpc = "" /\ file = <<>>

NextDet ==
  \/ AmbientDraw \/ Again
  \/ SeedStep \/ ClampStep
  \/ DetBenefits \/ DetDeps
  \/ DetCover \/ CoverRaise \/ CoverExit
  \/ DetLoop \/ LoopRaise \/ LoopExit
  \/ DetShuffleStep \/ FormatStep
  \/ DetAllPairs \/ CheckRaise \/ TakeStep

SpecDet == InitDet /\ [][NextDet]_vars

----------------------------------------------------------------------------
(* The clamping variant under fair sampling: every pair of [0,m) x [0,n) that can
   be drawn in the completion loop is eventually drawn while the loop runs *)
FairLoop(p, d) == p \in Randint(0, m - 1) /\ d \in Randint(0, n - 1) /\ LoopStep(p, d, rng)

Straight ==
  \/ SeedStep \/ ClampStep
  \/ AnyBenefits \/ AnyDeps
  \/ AnyCover \/ CoverRaise \/ CoverExit
  \/ LoopRaise \/ LoopExit
  \/ AnyShuffle \/ FormatStep
  \/ EmptyRangeRaises

InitLive ==
  /\ \E s \in Sizes, pne \in Counts, bmax \in BenefitMaxes, dmax \in DepMaxes :
       Enter(Clamping, s[1], s[2], pne, MaxB, bmax, dmax, NoSeed)
  /\ Idle

SpecLive ==
  /\ InitLive /\ [][ClampingCall]_vars
  /\ WF_vars(Straight)
  /\ \A p \in 0..(MaxCells - 1), d \in 0..(MaxCells - 1) : WF_vars(FairLoop(p, d))

----------------------------------------------------------------------------
(* The interactive driver (__main__) *)
EndOfInput == <<"EOF">>
TokenSet == {<<"0">>, <<"1">>, <<"2">>, <<"-", "1">>, <<"x">>}
InputLines == {Join(toks, SP) : toks \in UNION {[1..k -> TokenSet] : k \in 0..MaxTokens}}

FirstFourIntegers(toks) == Len(toks) >= 4 /\ \A k \in 1..4 : IsInt(toks[k])

FourIntegers(toks) == Len(toks) = 4 /\ \A k \in 1..Len(toks) : IsInt(toks[k])

(* the three prompt lines printed before input() *)
Prompt ==
  /\ mpc = "start"
  /\ stdout' = Append(stdout, <<"prompt">>)
  /\ mpc' = "input"
  /\ UNCHANGED <<entered, args, locals, call, rng, twice, line, file>>

(* m, n, ne, b = map(int, input().split()); gen_instance(m, n, ne, b, seed=42) *)
ReadInput ==
  /\ mpc = "input" /\ line # EndOfInput
  /\ FourIntegers(PySplit(line))
  /\ LET v == [k \in 1..4 |-> PyInt(PySplit(line)[k])]
     IN Begin(Clamping, v[1], v[2], v[3], v[4], DefaultBenefitMax, DefaultDepMax,
              <<DriverSeed>>)
  /\ mpc' = "gen"
  /\ UNCHANGED <<entered, stdout, rng, twice, line, file>>

Abort(message) ==
  /\ stdout' = Append(stdout, <<message>>)
  /\ mpc' = "exit"
  /\ UNCHANGED <<entered, args, locals, call, rng, twice, line, file>>

(* except ValueError: int() of a token, or unpacking other than four values *)
BadInput ==
  /\ mpc = "input" /\ line # EndOfInput
  /\ ~FourIntegers(PySplit(line))
  /\ Abort("invalid input")

(* input() at end of input raises EOFError: except Exception *)
NoInput ==
  /\ mpc = "input" /\ line = EndOfInput
  /\ Abort("unexpected error")

(* gen_instance raised ValueError: except ValueError *)
GenRaised ==
  /\ mpc = "gen" /\ pc = "raised"
  /\ Abort("invalid input")

(* with open(filename, "w") as f *)
OpenFile ==
  /\ mpc = "gen" /\ pc = "done"
  /\ file' = <<"open", <<>>>>
  /\ mpc' = "write"
  /\ UNCHANGED <<entered, args, locals, call, stdout, rng, twice, line>>

OpenFails ==
  /\ mpc = "gen" /\ pc = "done"
  /\ Abort("file error")

(* f.write(instance_data); print the success message *)
WriteFile ==
  /\ mpc = "write"
  /\ file' = <<"closed", ret>>
  /\ stdout' = Append(stdout, <<"saved">>)
  /\ mpc' = "exit"
  /\ UNCHANGED <<entered, args, locals, call, rng, twice, line>>

WriteFails ==
  /\ mpc = "write"
  /\ file' = <<"closed", <<>>>>
  /\ stdout' = Append(stdout, <<"file error">>)
  /\ mpc' = "exit"
  /\ UNCHANGED <<entered, args, locals, call, rng, twice, line>>

InitMain ==
  /\ line \in InputLines \cup {EndOfInput}
  /\ mpc = "start" /\ file = <<"absent", <<>>>>
  /\ variant = Clamping /\ m = 0 /\ n = 0 /\ ne_arg = 0 /\ b = 0
  /\ benefit_max = DefaultBenefitMax /\ dep_max = DefaultDepMax /\ seed = NoSeed
  /\ ne = 0 /\ benefits = <<>> /\ deps = <<>> /\ pairs_set = {} /\ i = 0
  /\ all_pairs = <<>> /\ pairs = <<>>
  /\ pc = "" /\ ret = <<>> /\ raised = "" /\ iters = 0
  /\ stdout = <<>> /\ rng = 0 /\ entered = <<>>
  /\ run = 0 /\ first = <<>>

NextMain ==
  \/ Prompt
  \/ ReadInput \/ BadInput \/ NoInput
  \/ (mpc = "gen" /\ ClampingSteps)
  \/ GenRaised
  \/ OpenFile \/ OpenFails
  \/ WriteFile \/ WriteFails

SpecMain == InitMain /\ [][NextMain]_vars

----------------------------------------------------------------------------
(* Reading an instance text back *)
TextLines(t) == SplitOn(t, NL)
LineInts(l) == [k \in 1..Len(PySplit(l)) |-> PyInt(PySplit(l)[k])]
AllInts(l) == \A k \in 1..Len(PySplit(l)) : IsInt(PySplit(l)[k])
PairLines(t) == SubSeq(TextLines(t), 4, Len(TextLines(t)))
Emitted(t) == [k \in 1..Len(PairLines(t)) |-> LineInts(PairLines(t)[k])]
Distinct(s) == \A x, y \in 1..Len(s) : s[x] = s[y] => x = y
Returned == pc = "done"
Failed == pc = "raised"
Positive == m > 0 /\ n > 0
InRange == m <= ne_arg /\ ne_arg <= m * n
RangesValid == benefit_max >= BenefitMin /\ dep_max >= DepMin

(* C1: for positive m, n and m <= ne <= m*n, the pair lines of the returned text
   (either variant) are exactly ne, pairwise distinct, each "p d" with
   0 <= p < m and 0 <= d < n. *)
C1_PairsExactUniqueInRange ==
  (Returned /\ Positive /\ InRange) =>
     /\ Len(Emitted(ret)) = ne_arg
     /\ Distinct(Emitted(ret))
     /\ \A k \in 1..Len(Emitted(ret)) :
          /\ Len(Emitted(ret)[k]) = 2
          /\ Emitted(ret)[k][1] \in 0..(m - 1)
          /\ Emitted(ret)[k][2] \in 0..(n - 1)

C1_Witness ==
  /\ Returned /\ Positive /\ InRange
  /\ variant = Raising /\ m = 2 /\ n = 2 /\ ne_arg = 3

(* C2: in the clamping variant, for positive m, n and any ne, every package index
   of [0, m) is the package of at least one pair line of the returned text. *)
C2_EveryPackageCovered ==
  (Returned /\ variant = Clamping /\ Positive) =>
     \A pkg \in 0..(m - 1) : \E k \in 1..Len(Emitted(ret)) : Emitted(ret)[k][1] = pkg

C2_Witness ==
  /\ Returned /\ variant = Clamping /\ Positive
  /\ m = 2 /\ n = 2 /\ ne_arg < m /\ Len(Emitted(ret)) = 2

(* C4: the returned text is a header "m n ne b", a line of m benefits, a line of n
   weights, and as many pair lines as the header's ne field says. *)
C4_HeaderCountsPairLines ==
  Returned =>
     /\ Len(TextLines(ret)) >= 3
     /\ LineInts(TextLines(ret)[1]) = <<m, n, ne, b>>
     /\ Len(PairLines(ret)) = LineInts(TextLines(ret)[1])[3]

(* C5 as stated: for positive m, n, benefit_max, dep_max a call produces m benefits
   in [10, benefit_max] and n weights in [5, dep_max]. *)
C5_ValuesForAllPositiveMaxima ==
  ((Returned \/ Failed) /\ Positive /\ InRange /\ b > 0 /\ benefit_max > 0 /\ dep_max > 0) =>
     /\ Len(benefits) = m /\ \A k \in 1..Len(benefits) : benefits[k] \in BenefitMin..benefit_max
     /\ Len(deps) = n /\ \A k \in 1..Len(deps) : deps[k] \in DepMin..dep_max

(* C5, amended: for positive m, n and benefit_max >= 10, dep_max >= 5 the value draws
   never fail, and the returned text's second line is m benefits in [10, benefit_max]
   and its third line n weights in [5, dep_max], in index order. *)
C5_ValuesWhenRangesNonEmpty ==
  (Positive /\ RangesValid) =>
     /\ Failed => Len(benefits) = m /\ Len(deps) = n
     /\ Returned =>
          /\ AllInts(TextLines(ret)[2]) /\ AllInts(TextLines(ret)[3])
          /\ LineInts(TextLines(ret)[2]) = benefits
          /\ LineInts(TextLines(ret)[3]) = deps
          /\ Len(benefits) = m /\ \A k \in 1..m : benefits[k] \in BenefitMin..benefit_max
          /\ Len(deps) = n /\ \A k \in 1..n : deps[k] \in DepMin..dep_max

C5_Witness ==
  /\ Returned /\ Positive /\ RangesValid
  /\ m = 2 /\ n = 2 /\ benefits = <<BenefitMin + 1, BenefitMin>> /\ deps = <<DepMin, DepMin + 1>>

C7_ClampedWithNotice ==
  (variant = Clamping /\ Positive /\ pc \notin {"seed", "clamp"}) =>
     /\ ne = Max(m, Min(ne_arg, m * n))
     /\ m <= ne /\ ne <= m * n
     /\ Len(stdout) = (IF ne # ne_arg THEN 1 ELSE 0)
     /\ \A k \in 1..Len(stdout) : stdout[k][2] = ne_arg /\ stdout[k][3] = ne
     /\ Failed => ~RangesValid
     /\ Returned => /\ LineInts(TextLines(ret)[1])[3] = ne
                    /\ Len(PairLines(ret)) = ne

C7_Witness ==
  /\ variant = Clamping /\ Positive /\ Returned
  /\ ne_arg > m * n /\ Len(stdout) = 1 /\ stdout[1][1] = "too large"

(* C8: a call with any of m, n, ne, b non-positive fails and returns no text. *)
C8_NonPositiveRejected ==
  (m <= 0 \/ n <= 0 \/ ne_arg <= 0 \/ b <= 0) => ~Returned

(* C3: two calls with the same arguments and the same seed (not None) end alike and
   return the same text, whatever the state of the random source before each. *)
C3_SameSeedSameText ==
  (run = 2 /\ seed # NoSeed /\ (Returned \/ Failed)) => Outcome = first

C3_Witness ==
  /\ run = 2 /\ seed # NoSeed /\ Returned
  /\ Len(entered) = 2 /\ entered[1] # entered[2]
  /\ variant = Clamping /\ m = 2 /\ n = 2 /\ ne = 3 /\ iters > 0

(* C9: the output file is opened only after the input line was read as four integers
   and gen_instance returned; a malformed line (a token that is no integer, or not
   exactly four tokens) ends with the error message printed and no file. *)
C9_FileOnlyAfterGeneration ==
  /\ file[1] # "absent" =>
        /\ Len(PySplit(line)) = 4
        /\ \A k \in 1..4 : IsInt(PySplit(line)[k])
        /\ <<m, n, ne_arg, b>> = LineInts(line)
        /\ Returned
  /\ (file[1] = "closed" /\ stdout[Len(stdout)] = <<"saved">>) => file[2] = ret
  /\ (mpc = "exit" /\ line # EndOfInput
        /\ (Len(PySplit(line)) # 4 \/ \E k \in 1..Len(PySplit(line)) : ~IsInt(PySplit(line)[k])))
       => file[1] = "absent" /\ stdout = <<<<"prompt">>, <<"invalid input">>>>

C9_Witness ==
  /\ mpc = "exit" /\ file[1] = "absent"
  /\ Len(PySplit(line)) = 5 /\ \A k \in 1..4 : IsInt(PySplit(line)[k])
  /\ ~IsInt(PySplit(line)[5])
  /\ stdout = <<<<"prompt">>, <<"invalid input">>>>

(* C10: in the clamping variant with positive m, n the pair set never exceeds the
   effective ne, holds exactly ne pairs once the completion loop has exited, the
   loop body does not run when the effective ne is m, and under fair sampling the
   loop is eventually left. *)
C10_LoopTerminatesExact ==
  /\ []((Positive /\ pc \notin {"seed", "clamp"}) => Cardinality(pairs_set) <= ne)
  /\ []((Positive /\ pc \in {"shuffle", "format", "done"}) => Cardinality(pairs_set) = ne)
  /\ []((Positive /\ pc \notin {"seed", "clamp"} /\ ne = m) => iters = 0)
  /\ (Positive /\ pc = "loop") ~> (pc = "shuffle")

C10_Witness ==
  /\ Positive /\ Returned /\ m = 2 /\ n = 2 /\ ne = m * n /\ ne_arg > ne
  /\ iters = MaxIters /\ Cardinality(pairs_set) = 4

====
